---- MODULE Spec2Model ----
(***************************************************************************)
(* A model of src/index.ts, the unit-test generator: one run of the script *)
(* from the argument check to process exit.  Strings the program computes  *)
(* on (paths, extensions, suggested names) are sequences of one-character  *)
(* strings, so that extname, basename and join are computed, not assumed.  *)
(***************************************************************************)
EXTENDS Integers, Sequences, FiniteSets, TLC

\* ------------------------------------------------------------------ strings

\* JavaScript String.prototype.slice(a, b) with 0-based, end-exclusive indices.
Slice(s, a, b) == SubSeq(s, a + 1, b)

\* JavaScript String.prototype.includes.
Includes(s, sub) ==
    \E i \in 1..(Len(s) - Len(sub) + 1) : SubSeq(s, i, i + Len(sub) - 1) = sub

\* JavaScript String.prototype.endsWith.
EndsWith(s, suf) ==
    /\ Len(suf) <= Len(s)
    /\ SubSeq(s, Len(s) - Len(suf) + 1, Len(s)) = suf

\* The segments of a path between "/" separators (empty segments included).
RECURSIVE SplitFrom(_, _, _)
SplitFrom(s, i, cur) ==
    IF i > Len(s) THEN <<cur>>
    ELSE IF s[i] = "/" THEN <<cur>> \o SplitFrom(s, i + 1, <<>>)
    ELSE SplitFrom(s, i + 1, Append(cur, s[i]))

Split(s) == SplitFrom(s, 1, <<>>)

RECURSIVE JoinWith(_, _)
JoinWith(segs, sep) ==
    IF Len(segs) = 0 THEN <<>>
    ELSE IF Len(segs) = 1 THEN segs[1]
    ELSE segs[1] \o sep \o JoinWith(Tail(segs), sep)

\* The literals of the source.
DotTs == <<".", "t", "s">>
DotTsx == <<".", "t", "s", "x">>
DotJs == <<".", "j", "s">>
DotJsx == <<".", "j", "s", "x">>
NodeModules == <<"n", "o", "d", "e", "_", "m", "o", "d", "u", "l", "e", "s">>
TestsName == <<"t", "e", "s", "t", "s">>
TestTsSuffix == <<".", "t", "e", "s", "t", ".", "t", "s">>
TestJsSuffix == <<".", "t", "e", "s", "t", ".", "j", "s">>

\* const allowedExtensions = new Set(['.ts', '.tsx', '.js', '.jsx'])
allowedExtensions == {DotTs, DotTsx, DotJs, DotJsx}

\* ------------------------------------------------------------ node:path

\* path.extname (posix): the loop over the path from its end.
RECURSIVE ExtnameLoop(_, _, _)
ExtnameLoop(path, i, st) ==
    IF i < 0 THEN st
    ELSE IF path[i + 1] = "/"
    THEN IF ~st.matchedSlash
         THEN [st EXCEPT !.startPart = i + 1]
         ELSE ExtnameLoop(path, i - 1, st)
    ELSE LET s1 == IF st.end = -1
                   THEN [st EXCEPT !.matchedSlash = FALSE, !.end = i + 1]
                   ELSE st
             s2 == IF path[i + 1] = "."
                   THEN IF s1.startDot = -1
                        THEN [s1 EXCEPT !.startDot = i]
                        ELSE IF s1.preDotState # 1
                             THEN [s1 EXCEPT !.preDotState = 1]
                             ELSE s1
                   ELSE IF s1.startDot # -1
                        THEN [s1 EXCEPT !.preDotState = -1]
                        ELSE s1
         IN  ExtnameLoop(path, i - 1, s2)

extname(path) ==
    LET st == ExtnameLoop(path, Len(path) - 1,
                          [startDot |-> -1, startPart |-> 0, end |-> -1,
                           matchedSlash |-> TRUE, preDotState |-> 0])
    IN  IF \/ st.startDot = -1
           \/ st.end = -1
           \/ st.preDotState = 0
           \/ (/\ st.preDotState = 1
               /\ st.startDot = st.end - 1
               /\ st.startDot = st.startPart + 1)
        THEN <<>>
        ELSE Slice(path, st.startDot, st.end)

\* path.basename (posix) with a suffix: the loop that matches the suffix.
RECURSIVE BasenameSuffixLoop(_, _, _, _)
BasenameSuffixLoop(path, suffix, i, st) ==
    IF i < 0 THEN st
    ELSE IF path[i + 1] = "/"
    THEN IF ~st.matchedSlash
         THEN [st EXCEPT !.start = i + 1]
         ELSE BasenameSuffixLoop(path, suffix, i - 1, st)
    ELSE LET s1 == IF st.firstNonSlashEnd = -1
                   THEN [st EXCEPT !.matchedSlash = FALSE,
                                   !.firstNonSlashEnd = i + 1]
                   ELSE st
             s2 == IF s1.extIdx >= 0
                   THEN IF path[i + 1] = suffix[s1.extIdx + 1]
                        THEN IF s1.extIdx = 0
                             THEN [s1 EXCEPT !.extIdx = -1, !.end = i]
                             ELSE [s1 EXCEPT !.extIdx = s1.extIdx - 1]
                        ELSE [s1 EXCEPT !.extIdx = -1,
                                        !.end = s1.firstNonSlashEnd]
                   ELSE s1
         IN  BasenameSuffixLoop(path, suffix, i - 1, s2)

\* path.basename (posix) without a usable suffix.
RECURSIVE BasenamePlainLoop(_, _, _)
BasenamePlainLoop(path, i, st) ==
    IF i < 0 THEN st
    ELSE IF path[i + 1] = "/"
    THEN IF ~st.matchedSlash
         THEN [st EXCEPT !.start = i + 1]
         ELSE BasenamePlainLoop(path, i - 1, st)
    ELSE IF st.end = -1
         THEN BasenamePlainLoop(path, i - 1,
                                [st EXCEPT !.matchedSlash = FALSE, !.end = i + 1])
         ELSE BasenamePlainLoop(path, i - 1, st)

\* basename that never removes the suffix.
basenameKeepSuffix(path, suffix) ==
    LET st == BasenamePlainLoop(path, Len(path) - 1,
                  [start |-> 0, end |-> -1, matchedSlash |-> TRUE])
    IN  IF st.end = -1 THEN <<>> ELSE Slice(path, st.start, st.end)

basename(path, suffix) ==
    IF Len(suffix) > 0 /\ Len(suffix) <= Len(path)
    THEN IF suffix = path
         THEN <<>>
         ELSE LET st == BasenameSuffixLoop(path, suffix, Len(path) - 1,
                            [start |-> 0, end |-> -1, matchedSlash |-> TRUE,
                             extIdx |-> Len(suffix) - 1,
                             firstNonSlashEnd |-> -1])
                  end == IF st.start = st.end THEN st.firstNonSlashEnd
                         ELSE IF st.end = -1 THEN Len(path)
                         ELSE st.end
              IN  Slice(path, st.start, end)
    ELSE LET st == BasenamePlainLoop(path, Len(path) - 1,
                       [start |-> 0, end |-> -1, matchedSlash |-> TRUE])
         IN  IF st.end = -1 THEN <<>> ELSE Slice(path, st.start, st.end)

\* path.normalize (posix) on the segments: "" and "." dropped, ".." pops.
RECURSIVE NormalizeSegs(_, _, _)
NormalizeSegs(segs, acc, isAbsolute) ==
    IF Len(segs) = 0 THEN acc
    ELSE LET s == Head(segs) IN
         IF s = <<>> \/ s = <<".">>
         THEN NormalizeSegs(Tail(segs), acc, isAbsolute)
         ELSE IF s = <<".", ".">>
         THEN IF Len(acc) > 0 /\ acc[Len(acc)] # <<".", ".">>
              THEN NormalizeSegs(Tail(segs), SubSeq(acc, 1, Len(acc) - 1),
                                 isAbsolute)
              ELSE IF isAbsolute
                   THEN NormalizeSegs(Tail(segs), acc, isAbsolute)
                   ELSE NormalizeSegs(Tail(segs), Append(acc, s), isAbsolute)
         ELSE NormalizeSegs(Tail(segs), Append(acc, s), isAbsolute)

normalize(path) ==
    IF Len(path) = 0 THEN <<".">>
    ELSE LET isAbsolute == path[1] = "/"
             trailing == path[Len(path)] = "/"
             body == JoinWith(NormalizeSegs(Split(path), <<>>, isAbsolute),
                              <<"/">>)
             b1 == IF Len(body) = 0
                   THEN IF isAbsolute THEN <<>> ELSE <<".">>
                   ELSE body
             b2 == IF Len(body) > 0 /\ trailing THEN b1 \o <<"/">> ELSE b1
         IN  IF isAbsolute THEN <<"/">> \o b2 ELSE b2

\* path.join (posix) of two arguments.
join(a, b) ==
    IF Len(a) = 0 /\ Len(b) = 0 THEN <<".">>
    ELSE IF Len(a) = 0 THEN normalize(b)
    ELSE IF Len(b) = 0 THEN normalize(a)
    ELSE normalize(a \o <<"/">> \o b)

\* --------------------------------------------------------- the environment

\* Size of the project tree (number of entries under the root).
MaxEntries == 2

\* process.argv[2] when it is given.
projectPath == <<"p">>

File(p) == [path |-> p, kind |-> "file"]
Dir(p) == [path |-> p, kind |-> "dir"]

\* Entries a project tree is drawn from, by their path relative to the root.
TreeCatalog ==
    { File(<<"a", ".", "t", "s">>),
      File(<<"b", ".", "j", "s", "x">>),
      File(<<"c", ".", "t", "s", "x">>),
      File(<<"s", "r", "c", "/", "a", ".", "t", "s">>),
      File(<<"s", "r", "c", "/", "v", "e", "n", "d", "o", "r", "/",
             "b", ".", "t", "s">>),
      File(<<"R", "E", "A", "D", "M", "E", ".", "m", "d">>),
      File(NodeModules \o <<"/", "m", ".", "j", "s">>),
      File(NodeModules \o DotTs),
      Dir(<<"d", ".", "j", "s">>) }

Trees == {t \in SUBSET TreeCatalog : Cardinality(t) <= MaxEntries}

\* A JavaScript value that is a string, and the value undefined.
Str(s) == [def |-> TRUE, s |-> s]
Undefined == [def |-> FALSE, s |-> <<>>]

\* What the remote service may put under "testName" and "tests".
TestNames ==
    { Undefined, Str(<<>>), Str(<<"a">>), Str(<<"a", ".", "t", "s">>),
      Str(<<".", ".", "/", "a", ".", "j", "s">>) }

TestCodes == {Undefined, Str(<<>>), Str(<<"t1">>), Str(<<"t2">>)}

\* Outcomes of the fetch and of decoding its body: the promise rejects, the
\* status is not a success, the body or its message content is not JSON of
\* the expected envelope, or the content parses to an object.
Responses ==
    { [kind |-> k, tests |-> Undefined, testName |-> Undefined] :
        k \in {"rejected", "notOk", "badJson"} }
    \cup { [kind |-> "json", tests |-> t, testName |-> n] :
             t \in TestCodes, n \in TestNames }

NoEntry == <<>>
NoResult == [tests |-> Undefined, testName |-> Undefined]

\* ---------------------------------------------------------------- the state

VARIABLES
    pc,          \* where the script is: start, mkdir, scan, stat, read,
                 \* generate, fetch, write, done, exited
    argPresent,  \* process.argv[2] is given
    apiKeySet,   \* process.env.OPENAI_API_KEY is set
    cwdIsRoot,   \* the process's working directory is the project root
    rootAtStart, \* what projectPath named when the process started
    rootKind,    \* what projectPath names: dir, file, missing
    tree,        \* the entries under the root
    mkdirState,  \* mkdir of the tests directory: no, ok, failed
    scanned,     \* the paths glob.scan has yielded
    entry,       \* the loop variable
    statResult,  \* per path, what stat(entry) returned: none, file, dir, enoent
    result,      \* what generateUnitTests returned for entry
    fstate,      \* per path, how far its processing went
    written,     \* the files on disk under tests: output path -> content, source
    errLog,      \* the paths logged by the catch at line 150
    requests,    \* number of fetch calls made
    exitCode,    \* none, 0, 1
    usageShown,  \* the usage message was printed
    counts,      \* numbers of readFile calls, generateUnitTests calls,
                 \* results decoded and writeFile calls that succeeded
    prevContent, \* what the write for entry replaced, if anything
    suggested,   \* per path, the testName its written file was derived from
    outNames,    \* the output paths written by this run
    run,         \* 1 for the first run of the script, 2 for a second one
    first        \* outNames and suggested of the first run, once it is over

vars == <<pc, argPresent, apiKeySet, cwdIsRoot, rootAtStart, rootKind, tree,
          mkdirState, scanned, entry, statResult, result, fstate, written,
          errLog, requests, exitCode, usageShown, counts, prevContent,
          suggested, outNames, run, first>>

env == <<argPresent, apiKeySet, cwdIsRoot, rootAtStart, tree>>

runs == <<run, first>>

Paths(t) == {e.path : e \in t}

FailedStates ==
    {"FailedStat", "FailedRead", "FailedConfig", "FailedTransport",
     "FailedDecode", "FailedWrite"}

NoCounts == [attempts |-> 0, invocations |-> 0, decoded |-> 0, writes |-> 0]

\* The state of a process that has just started.
Started ==
    /\ pc = "start"
    /\ mkdirState = "no"
    /\ scanned = {}
    /\ entry = NoEntry
    /\ statResult = [p \in Paths(tree) |-> "none"]
    /\ result = NoResult
    /\ fstate = [p \in Paths(tree) |-> "Pending"]
    /\ errLog = {}
    /\ requests = 0
    /\ exitCode = "none"
    /\ usageShown = FALSE
    /\ counts = NoCounts
    /\ prevContent = Undefined
    /\ suggested = [p \in Paths(tree) |-> Undefined]
    /\ outNames = {}

Init ==
    /\ argPresent \in BOOLEAN
    /\ apiKeySet \in BOOLEAN
    /\ cwdIsRoot \in BOOLEAN
    /\ rootAtStart \in {"dir", "file", "missing"}
    /\ rootKind = rootAtStart
    /\ tree \in IF rootAtStart = "dir" THEN Trees ELSE {{}}
    /\ written = <<>>
    /\ run = 1
    /\ first = [names |-> {}, suggested |-> <<>>]
    /\ Started

\* ----------------------------------------------------- discovery (glob)

\* new Glob('*.{ts,tsx,js,jsx}').match: "*" matches any run of characters
\* other than the path separator, so a match has a single segment; a leading
\* dot is not matched by "*" (the scanner's default, dot: false).
GlobMatch(path) ==
    /\ ~Includes(path, <<"/">>)
    /\ \E x \in allowedExtensions : EndsWith(path, x)
    /\ path[1] # "."

\* glob.scan(projectPath): the paths, relative to the root, of the files
\* (the scanner's default, onlyFiles: true) that match the pattern.
GlobScan(t) == {e.path : e \in {x \in t : x.kind = "file" /\ GlobMatch(x.path)}}

\* entry.includes('node_modules')
SkipsNodeModules(path) == Includes(path, NodeModules)

\* What stat(entry) can return.  The scan yields paths relative to the root
\* and stat resolves them against the working directory: in the root it
\* finds the entry scanned; elsewhere it finds whatever that directory
\* holds under the same name, or nothing (ENOENT).
StatOutcomes(path) ==
    IF cwdIsRoot THEN {"file"} ELSE {"file", "dir", "enoent"}

\* ------------------------------------------------------- the operations

\* ArgMissing with the check left out.
ArgMissingIgnored == FALSE

\* Line 11: if (!projectPath)
ArgMissing == ~argPresent

\* Lines 10-15: the usage check.
CheckArgs ==
    /\ pc = "start"
    /\ IF ~ArgMissing
       THEN /\ pc' = "mkdir"
            /\ exitCode' = exitCode
            /\ usageShown' = usageShown
       ELSE /\ pc' = "exited"
            /\ exitCode' = 1
            /\ usageShown' = TRUE
    /\ UNCHANGED <<env, rootKind, mkdirState, scanned, entry, statResult,
                   result, fstate, written, errLog, requests, counts,
                   prevContent, suggested, outNames, runs>>

\* What mkdir(testsDir, {recursive: true}) can do: it creates the missing
\* directories of the path, the root included; it fails when the root is
\* not a directory, and may fail on a file-system denial.
MkdirOutcomes == IF rootKind = "file" THEN {"failed"} ELSE {"ok", "failed"}

\* Lines 89-97: create the tests directory; a failure is logged and the
\* script goes on.
MkTestsDir ==
    /\ pc = "mkdir"
    /\ \E r \in MkdirOutcomes :
         /\ mkdirState' = r
         /\ rootKind' = IF r = "ok" THEN "dir" ELSE rootKind
    /\ pc' = "scan"
    /\ UNCHANGED <<env, scanned, entry, statResult, result, fstate, written,
                   errLog, requests, exitCode, usageShown, counts,
                   prevContent, suggested, outNames, runs>>

\* Line 100, the scan cannot open the root: the rejection is not caught and
\* the process exits with a failure.
ScanFail ==
    /\ pc = "scan"
    /\ rootKind # "dir"
    /\ pc' = "exited"
    /\ exitCode' = 1
    /\ UNCHANGED <<env, rootKind, mkdirState, scanned, entry, statResult,
                   result, fstate, written, errLog, requests, usageShown,
                   counts, prevContent, suggested, outNames, runs>>

\* Lines 100-106: the scan yields the next entry, in an order of its own;
\* an entry whose path includes node_modules is skipped.
ScanNext ==
    /\ pc = "scan"
    /\ rootKind = "dir"
    /\ \E e \in GlobScan(tree) \ scanned :
         /\ scanned' = scanned \cup {e}
         /\ entry' = e
         /\ IF SkipsNodeModules(e)
            THEN /\ pc' = "scan"
                 /\ fstate' = [fstate EXCEPT ![e] = "Skipped"]
            ELSE /\ pc' = "stat"
                 /\ fstate' = [fstate EXCEPT ![e] = "Discovered"]
    /\ result' = NoResult
    /\ prevContent' = Undefined
    /\ UNCHANGED <<env, rootKind, mkdirState, statResult, written, errLog,
                   requests, exitCode, usageShown, counts, suggested,
                   outNames, runs>>

\* Line 100/153: the scan is exhausted, the script ends and the process
\* exits with status 0.
ScanDone ==
    /\ pc = "scan"
    /\ rootKind = "dir"
    /\ GlobScan(tree) \ scanned = {}
    /\ pc' = "done"
    /\ exitCode' = 0
    /\ UNCHANGED <<env, rootKind, mkdirState, scanned, entry, statResult,
                   result, fstate, written, errLog, requests, usageShown,
                   counts, prevContent, suggested, outNames, runs>>

\* IsCandidate without the isFile() test.
IsCandidateNoIsFile(path, st) == extname(path) \in allowedExtensions

\* entryStat.isFile() and allowedExtensions.has(extname(entry))
IsCandidate(path, st) == st = "file" /\ extname(path) \in allowedExtensions

\* Lines 108-118: stat the entry, outside the try block: a rejection is not
\* caught and ends the process; an entry that is no file, or whose extension
\* is not allowed, is passed over.
StatEntry ==
    /\ pc = "stat"
    /\ \E r \in StatOutcomes(entry) :
         /\ statResult' = [statResult EXCEPT ![entry] = r]
         /\ IF r = "enoent"
            THEN /\ pc' = "exited"
                 /\ exitCode' = 1
                 /\ fstate' = [fstate EXCEPT ![entry] = "FailedStat"]
            ELSE /\ exitCode' = exitCode
                 /\ IF IsCandidate(entry, r)
                    THEN /\ pc' = "read"
                         /\ fstate' = fstate
                    ELSE /\ pc' = "scan"
                         /\ fstate' = [fstate EXCEPT ![entry] = "Skipped"]
    /\ UNCHANGED <<env, rootKind, mkdirState, scanned, entry, result, written,
                   errLog, requests, usageShown, counts, prevContent,
                   suggested, outNames, runs>>

\* Caught going back to the read of the same entry instead of the next one.
CaughtRetry(reason) ==
    /\ errLog' = errLog \cup {entry}
    /\ fstate' = [fstate EXCEPT ![entry] = "Discovered"]
    /\ pc' = "read"

\* Lines 148-151: the catch of the loop body: log the entry, go on with the
\* next one.
Caught(reason) ==
    /\ errLog' = errLog \cup {entry}
    /\ fstate' = [fstate EXCEPT ![entry] = reason]
    /\ pc' = "scan"

\* Lines 122-123: read the file.
ReadFile ==
    /\ pc = "read"
    /\ counts' = [counts EXCEPT !.attempts = @ + 1]
    /\ \E ok \in BOOLEAN :
         IF ok
         THEN /\ pc' = "generate"
              /\ fstate' = [fstate EXCEPT ![entry] = "Read"]
              /\ errLog' = errLog
         ELSE Caught("FailedRead")
    /\ UNCHANGED <<env, rootKind, mkdirState, scanned, entry, statResult,
                   result, written, requests, exitCode, usageShown,
                   prevContent, suggested, outNames, runs>>

\* HasCredential with the check left out.
HasCredentialUnchecked == TRUE

\* Lines 30-31: const apiKey = process.env.OPENAI_API_KEY; if (!apiKey)
HasCredential == apiKeySet

\* AwaitFetch with the await left out: the loop goes on at once.
NoAwaitFetch == "scan"

\* Lines 52 and 126: await fetch(...), inside await generateUnitTests(...):
\* the script is suspended until the response arrives.
AwaitFetch == "fetch"

\* Lines 126, 30-66: generateUnitTests up to the fetch: without a credential
\* it throws, otherwise it sends one request.
Generate ==
    /\ pc = "generate"
    /\ counts' = [counts EXCEPT !.invocations = @ + 1]
    /\ IF ~HasCredential
       THEN /\ Caught("FailedConfig")
            /\ requests' = requests
       ELSE /\ requests' = requests + 1
            /\ pc' = AwaitFetch
            /\ fstate' = [fstate EXCEPT ![entry] = "Requested"]
            /\ errLog' = errLog
    /\ UNCHANGED <<env, rootKind, mkdirState, scanned, entry, statResult,
                   result, written, exitCode, usageShown, prevContent,
                   suggested, outNames, runs>>

\* Lines 68-85: the response arrives and is decoded; tests and testName are
\* taken from the parsed object as they are.
Respond ==
    /\ pc = "fetch"
    /\ \E r \in Responses :
         IF r.kind \in {"rejected", "notOk"}
         THEN /\ Caught("FailedTransport")
              /\ result' = result
              /\ counts' = counts
         ELSE IF r.kind = "badJson"
         THEN /\ Caught("FailedDecode")
              /\ result' = result
              /\ counts' = counts
         ELSE /\ result' = [tests |-> r.tests, testName |-> r.testName]
              /\ fstate' = [fstate EXCEPT ![entry] = "Generated"]
              /\ pc' = "write"
              /\ errLog' = errLog
              /\ counts' = [counts EXCEPT !.decoded = @ + 1]
    /\ UNCHANGED <<env, rootKind, mkdirState, scanned, entry, statResult,
                   written, requests, exitCode, usageShown, prevContent,
                   suggested, outNames, runs>>

\* TestSuffix with the '.tsx' case forgotten.
TestSuffixTsOnly(ext) == IF ext = DotTs THEN TestTsSuffix ELSE TestJsSuffix

\* Lines 134-141: the extension of the test file follows the source's.
TestSuffix(ext) == IF ext = DotTs \/ ext = DotTsx THEN TestTsSuffix ELSE TestJsSuffix

\* Line 89: const testsDir = join(projectPath, 'tests')
testsDir == join(projectPath, TestsName)

\* TestFilePath with the suggested name used as it is, without basename.
TestFilePathNoBasename(generatedFilename, ext) ==
    join(testsDir, generatedFilename \o TestSuffix(ext))

\* TestFilePath with the number of the run put into the name.
TestFilePathRunTagged(generatedFilename, ext) ==
    join(testsDir, basename(generatedFilename, ext)
                     \o (IF run = 1 THEN <<>> ELSE <<"-", "2">>)
                     \o TestSuffix(ext))

\* Lines 132-142: the path of the test file.
TestFilePath(generatedFilename, ext) ==
    join(testsDir, basename(generatedFilename, ext) \o TestSuffix(ext))

\* What writeFile can do: without the tests directory it fails; otherwise it
\* writes, or fails on a file-system denial.  A file already there under the
\* name changes nothing to that.
WriteOutcomes == IF mkdirState = "ok" THEN {TRUE, FALSE} ELSE {FALSE}

\* WriteFile that leaves a file already there as it is (flag 'wx' semantics
\* without the error).
WriteFileKeepExisting(fs, path, data, src) ==
    fs @@ (path :> [content |-> data, src |-> src])

\* WriteFile that also leaves a second copy beside the file.
WriteFileWithCopy(fs, path, data, src) ==
    (path :> [content |-> data, src |-> src])
        @@ ((path \o <<"~">>) :> [content |-> data, src |-> src]) @@ fs

\* Line 145: writeFile(testFilePath, testCode): the file is created or
\* replaced as a whole.
WriteFile(fs, path, data, src) ==
    (path :> [content |-> data, src |-> src]) @@ fs

\* Lines 127-146: derive the name and write the file.  basename throws on a
\* name that is no string and writeFile on data that is no string.
WriteTests ==
    /\ pc = "write"
    /\ IF ~result.testName.def \/ ~result.tests.def
       THEN /\ Caught("FailedWrite")
            /\ UNCHANGED <<written, counts, prevContent, suggested, outNames>>
       ELSE \E ok \in WriteOutcomes :
              IF ok
              THEN LET testFilePath ==
                           TestFilePath(result.testName.s, extname(entry))
                   IN  /\ written' = WriteFile(written, testFilePath,
                                               result.tests.s, entry)
                       /\ prevContent' =
                              IF testFilePath \in DOMAIN written
                              THEN Str(written[testFilePath].content)
                              ELSE Undefined
                       /\ outNames' = outNames \cup {testFilePath}
                       /\ suggested' =
                              [suggested EXCEPT ![entry] = result.testName]
                       /\ counts' = [counts EXCEPT !.writes = @ + 1]
                       /\ fstate' = [fstate EXCEPT ![entry] = "Written"]
                       /\ pc' = "scan"
                       /\ errLog' = errLog
              ELSE /\ Caught("FailedWrite")
                   /\ UNCHANGED <<written, counts, prevContent, suggested,
                                  outNames>>
    /\ UNCHANGED <<env, rootKind, mkdirState, scanned, entry, statResult,
                   result, requests, exitCode, usageShown, runs>>

Next ==
    \/ CheckArgs
    \/ MkTestsDir
    \/ ScanFail
    \/ ScanNext
    \/ ScanDone
    \/ StatEntry
    \/ ReadFile
    \/ Generate
    \/ Respond
    \/ WriteTests

Spec == Init /\ [][Next]_vars

\* ------------------------------------------------------------ a second run

\* The script is run a second time on the same project once its first run
\* has completed: a new process, the files on disk as the first run left
\* them.
Rerun ==
    /\ pc = "done"
    /\ run = 1
    /\ run' = 2
    /\ first' = [names |-> outNames, suggested |-> suggested]
    /\ pc' = "start"
    /\ mkdirState' = "no"
    /\ scanned' = {}
    /\ entry' = NoEntry
    /\ statResult' = [p \in Paths(tree) |-> "none"]
    /\ result' = NoResult
    /\ fstate' = [p \in Paths(tree) |-> "Pending"]
    /\ errLog' = {}
    /\ requests' = 0
    /\ exitCode' = "none"
    /\ usageShown' = FALSE
    /\ counts' = NoCounts
    /\ prevContent' = Undefined
    /\ suggested' = [p \in Paths(tree) |-> Undefined]
    /\ outNames' = {}
    /\ UNCHANGED <<env, rootKind, written>>

\* Two runs in an environment where the start-up succeeds: argument and
\* credential given, the project root a directory and the working directory.
InitRerun ==
    /\ Init
    /\ argPresent
    /\ apiKeySet
    /\ cwdIsRoot
    /\ rootAtStart = "dir"
    /\ Cardinality(tree) < MaxEntries

NextRerun ==
    \/ CheckArgs
    \/ MkTestsDir
    \/ ScanNext
    \/ ScanDone
    \/ StatEntry
    \/ ReadFile
    \/ Generate
    \/ Respond
    \/ WriteTests
    \/ Rerun

SpecRerun == InitRerun /\ [][NextRerun]_vars

\* ---------------------------------------------------------------- claims

\* States of a file for which the read was attempted.
ReadAttempted ==
    {"Read", "Requested", "Generated", "Written", "FailedRead", "FailedConfig",
     "FailedTransport", "FailedDecode", "FailedWrite"}

\* States of a file for which a request was sent.
RequestSent ==
    {"Requested", "Generated", "Written", "FailedTransport", "FailedDecode",
     "FailedWrite"}

Vendor == <<"v", "e", "n", "d", "o", "r">>

\* The directory segments of a path (all segments but the last).
DirSegments(path) ==
    LET segs == Split(path) IN {segs[i] : i \in 1..(Len(segs) - 1)}

\* C1: with the credential unset the run fails at start-up: the tests
\* directory is not created, no entry is scanned or read, and the run does
\* not complete.
C1_MissingCredentialFatalAtStartup ==
    (argPresent /\ ~apiKeySet) =>
        /\ mkdirState = "no"
        /\ scanned = {}
        /\ \A p \in Paths(tree) : fstate[p] \notin ReadAttempted
        /\ pc # "done"

\* C2: with the credential unset no request is ever sent: none is counted,
\* none is in flight, and no file is in a state that follows a request.
C2_NoRequestWithoutCredential ==
    ~apiKeySet =>
        /\ requests = 0
        /\ pc # "fetch"
        /\ \A p \in Paths(tree) : fstate[p] \notin RequestSent

\* C2 witness: a completed run without the credential in which generation
\* was invoked for two files.
C2_Witness ==
    /\ ~apiKeySet
    /\ pc = "done"
    /\ Cardinality({p \in Paths(tree) : fstate[p] = "FailedConfig"}) >= 2

\* C3: a failure of any step of a file, its status check included, is caught
\* and logged with the file's path and does not end the run.
C3_PerFileFailureIsolated ==
    \A p \in Paths(tree) :
        fstate[p] \in FailedStates => (p \in errLog /\ pc # "exited")

\* C4: with the argument present and initialization succeeded (credential
\* set, tests directory created), a run that has ended has completed with
\* exit status 0.
C4_RunCompletesWithStatusZero ==
    (pc \in {"done", "exited"} /\ argPresent /\ apiKeySet /\ mkdirState = "ok")
        => (pc = "done" /\ exitCode = 0)

\* A result with both keys present and non-empty.
ResultUsable(r) ==
    /\ r.tests.def /\ r.tests.s # <<>>
    /\ r.testName.def /\ r.testName.s # <<>>

\* C5: no test file is written for a file whose decoded result lacks tests
\* or testName or has either empty.
C5_IncompleteResultRejected ==
    (entry # NoEntry /\ fstate[entry] = "Written") => ResultUsable(result)

\* C6: every written test file ends in .test.ts when its source's extension
\* is .ts or .tsx and in .test.js when it is .js or .jsx.
C6_TestFileExtTracksSource ==
    \A out \in DOMAIN written :
        LET ext == extname(written[out].src) IN
        /\ ext \in {DotTs, DotTsx} => EndsWith(out, TestTsSuffix)
        /\ ext \in {DotJs, DotJsx} => EndsWith(out, TestJsSuffix)

\* C6 witness: test files written from a .tsx and from a .jsx source, the
\* latest one under a suggested name that carries a .js extension.
C6_Witness ==
    /\ \E o1, o2 \in DOMAIN written :
         /\ extname(written[o1].src) = DotTsx
         /\ extname(written[o2].src) = DotJsx
    /\ entry # NoEntry
    /\ fstate[entry] = "Written"
    /\ extname(entry) = DotTsx
    /\ extname(result.testName.s) = DotJs

\* C7: every file whose read or generation was attempted is a regular file
\* with an allowed extension and no node_modules directory segment.
C7_OnlyCandidatesAttempted ==
    \A p \in Paths(tree) :
        fstate[p] \in ReadAttempted =>
            /\ statResult[p] = "file"
            /\ extname(p) \in allowedExtensions
            /\ NodeModules \notin DirSegments(p)

\* C7 witness: a file was read while another entry, found to be no file, was
\* passed over.
C7_Witness ==
    \E p, q \in Paths(tree) :
        /\ fstate[p] \in ReadAttempted
        /\ statResult[q] = "dir"
        /\ fstate[q] = "Skipped"

\* C8: discovery is recursive: when the run has completed, every regular
\* file with an allowed extension outside the dependency directories, at any
\* depth, was reached by the scan.
C8_EveryEligibleFileDiscovered ==
    pc = "done" =>
        \A e \in tree :
            (/\ e.kind = "file"
             /\ extname(e.path) \in allowedExtensions
             /\ DirSegments(e.path) \cap {NodeModules, Vendor} = {})
                => fstate[e.path] # "Pending"

\* C9: a root that does not exist or is no directory is fatal: the run does
\* not complete and no file is processed.
C9_BadRootIsFatal ==
    rootAtStart # "dir" => (pc # "done" /\ scanned = {})

\* C10: when creating the tests directory fails the run does not enter the
\* file loop: no entry is scanned, no request is sent, the run does not
\* complete.
C10_InitFailureIsFatal ==
    mkdirState = "failed" => (scanned = {} /\ requests = 0 /\ pc # "done")

\* C11: without the argument the process prints the usage message and exits
\* with status 1 before anything else: no credential read (no generation
\* call), no mkdir, no scan, no read, no request.
C11_MissingArgFailsFirst ==
    ~argPresent =>
        /\ pc \in {"start", "exited"}
        /\ pc = "exited" => (exitCode = 1 /\ usageShown)
        /\ mkdirState = "no"
        /\ scanned = {}
        /\ requests = 0
        /\ counts = NoCounts

\* C11 witness: the process has exited on the missing argument although the
\* credential is set and the project holds files.
C11_Witness ==
    /\ ~argPresent
    /\ pc = "exited"
    /\ apiKeySet
    /\ GlobScan(tree) # {}

\* C12: every call of generateUnitTests sends exactly one request and none is
\* sent twice for a file: requests = calls = files a request was sent for.
C12_OneRequestPerInvocation ==
    /\ requests = counts.invocations
    /\ requests = Cardinality({p \in Paths(tree) : fstate[p] \in RequestSent})

\* C13: when the request for a file did not succeed, the tests directory
\* exists, the error is logged with the file, no test file is written for
\* it, and a run that has ended has exit status 0.
C13_DirExistsOnTransportFailure ==
    \A p \in Paths(tree) :
        fstate[p] = "FailedTransport" =>
            /\ mkdirState = "ok"
            /\ p \in errLog
            /\ \A out \in DOMAIN written : written[out].src # p
            /\ pc \in {"done", "exited"} => exitCode = 0

\* The files a run has written a test file for.
WrittenSources(sg) == {p \in DOMAIN sg : sg[p].def}

C15_LastWriteWins ==
    (entry # NoEntry /\ fstate[entry] = "Written") =>
        \E out \in DOMAIN written :
            /\ written[out].src = entry
            /\ written[out].content = result.tests.s

\* C15 witness: the write for the entry replaced a file with other content,
\* written before for another source.
C15_Witness ==
    /\ entry # NoEntry
    /\ fstate[entry] = "Written"
    /\ prevContent.def
    /\ prevContent.s # result.tests.s
    /\ Cardinality({p \in Paths(tree) : fstate[p] = "Written"}) = 2

\* The suggested name with a trailing ext removed, unchanged otherwise.
StripExt(name, ext) ==
    IF EndsWith(name, ext) THEN SubSeq(name, 1, Len(name) - Len(ext)) ELSE name

\* The file the claim expects for a suggested name and a source extension.
ExpectedPath(name, ext) ==
    <<"p", "/">> \o TestsName \o <<"/">> \o StripExt(name, ext)
        \o (IF ext \in {DotTs, DotTsx} THEN TestTsSuffix ELSE TestJsSuffix)

\* C16 as stated: the file written for the entry is named by the suggested
\* name without a trailing source extension, followed by .test.ts/.test.js.
C16_BaseNameIsNameWithoutExt ==
    (entry # NoEntry /\ fstate[entry] = "Written") =>
        LET out == ExpectedPath(result.testName.s, extname(entry))
        IN  out \in DOMAIN written /\ written[out].src = entry

\* C16 as amended: the same, for a suggested name without a path separator.
C16_BaseNameOfPlainName ==
    (/\ entry # NoEntry
     /\ fstate[entry] = "Written"
     /\ ~Includes(result.testName.s, <<"/">>)) =>
        LET out == ExpectedPath(result.testName.s, extname(entry))
        IN  out \in DOMAIN written /\ written[out].src = entry

\* C16 witness: a file written under a plain suggested name that ended with
\* the source's extension.
C16_Witness ==
    /\ entry # NoEntry
    /\ fstate[entry] = "Written"
    /\ ~Includes(result.testName.s, <<"/">>)
    /\ result.testName.s # extname(entry)
    /\ EndsWith(result.testName.s, extname(entry))

\* States of a file whose processing has begun and not ended.
NonTerminal == {"Discovered", "Read", "Requested", "Generated"}

\* C17: at most one file is being processed, it is the loop's entry, and at
\* most one request is in flight.
C17_OneFileAtATime ==
    LET active == {p \in Paths(tree) : fstate[p] \in NonTerminal}
    IN  /\ Cardinality(active) <= 1
        /\ active \subseteq {entry}
        /\ Cardinality({p \in Paths(tree) : fstate[p] = "Requested"}) <= 1
        /\ pc \in {"stat", "read", "generate", "fetch", "write"}
              => active = {entry}

\* C17 witness: a request is in flight for one file after another file was
\* written.
C17_Witness ==
    /\ pc = "fetch"
    /\ \E p \in Paths(tree) : p # entry /\ fstate[p] = "Written"

\* The steps of the per-file state machine.
FileSteps ==
    { <<"Pending", "Discovered">>, <<"Pending", "Skipped">>,
      <<"Discovered", "Skipped">>, <<"Discovered", "Read">>,
      <<"Read", "Requested">>, <<"Requested", "Generated">>,
      <<"Generated", "Written">> }
    \cup (NonTerminal \X FailedStates)

\* C18: every change of a file's state is a step of Discovered -> Read ->
\* Requested -> Generated -> Written, or a failure from a non-terminal
\* state: nothing is skipped or repeated, Written and Failed are final.
C18_PerFileStateMachine ==
    [][\A p \in Paths(tree) :
          fstate'[p] # fstate[p] => <<fstate[p], fstate'[p]>> \in FileSteps]_vars

\* C18 witness: a run in which one file was written and another failed.
C18_Witness ==
    \E p, q \in Paths(tree) :
        fstate[p] = "Written" /\ fstate[q] \in FailedStates

\* C19: every file written is a direct child of <root>/tests.
C19_WritesAreDirectChildren ==
    \A out \in DOMAIN written :
        LET segs == Split(out)
        IN  /\ Len(segs) = 3
            /\ segs[1] = projectPath
            /\ segs[2] = TestsName
            /\ segs[3] \notin {<<>>, <<".">>, <<".", ".">>}

\* C19 witness: a file written for a suggested name with a ".." segment and
\* a separator.
C19_Witness ==
    /\ entry # NoEntry
    /\ fstate[entry] = "Written"
    /\ <<".", ".">> \in DirSegments(result.testName.s)

\* C20: files in the tests directory <= writes <= results decoded <=
\* requests <= files attempted.
C20_CountsAreOrdered ==
    /\ Cardinality(DOMAIN written) <= counts.writes
    /\ counts.writes <= counts.decoded
    /\ counts.decoded <= requests
    /\ requests <= counts.attempts

\* C20 witness: a completed run with every inequality strict.
C20_Witness ==
    /\ pc = "done"
    /\ Cardinality(DOMAIN written) = 1
    /\ counts.writes = 2
    /\ counts.attempts = 2

====
